---- MODULE Spec2Model ----
(***************************************************************************)
(* Model of school_operational_status_generator.py: the module-level       *)
(* configuration layering (environment, then command-line flags), the      *)
(* pandas load of the roster (read_csv with type inference and NA          *)
(* detection, the sorted groupby iteration) and main()'s print-by-print    *)
(* emission of one JSON file per State.                                    *)
(*                                                                         *)
(* Text is a sequence of one-character strings (a configuration value is   *)
(* one opaque chunk), so that what a %s substitution puts between two      *)
(* double quotes can be inspected.  A file is the sequence of the print()  *)
(* calls that wrote it; each print is the template it used and the two     *)
(* values substituted into it.                                             *)
(***************************************************************************)
EXTENDS Integers, Sequences, FiniteSets, TLC

\* ------------------------------------------------------------------ bounds
\* Largest number of data rows of an input roster.
MaxRows == 3

\* ------------------------------------------------------------------ text
Digit == <<"0", "1", "2", "3", "4", "5", "6", "7", "8", "9">>

DigitSet == {Digit[i] : i \in 1..10}

DigitVal(c) == (CHOOSE i \in 1..10 : Digit[i] = c) - 1

\* The characters the rosters use, in ascending code point order (Python
\* compares str by code point): '"' 34, digits 48.., capitals 65.., '\' 92,
\* small letters 97..
CodeOrder == <<"\"", "0", "1", "2", "A", "B", "D", "M", "N", "V", "X", "Y", "\\", "a", "b">>

Code(c) == CHOOSE i \in 1..Len(CodeOrder) : CodeOrder[i] = c

RECURSIVE LexLess(_, _)
LexLess(s, t) ==
    IF s = <<>> THEN t # <<>>
    ELSE IF t = <<>> THEN FALSE
    ELSE IF Head(s) = Head(t) THEN LexLess(Tail(s), Tail(t))
    ELSE Code(Head(s)) < Code(Head(t))

IsIntText(s) == s # <<>> /\ \A i \in 1..Len(s) : s[i] \in DigitSet

RECURSIVE IntOf(_)
IntOf(s) == IF s = <<>> THEN 0 ELSE 10 * IntOf(SubSeq(s, 1, Len(s) - 1)) + DigitVal(s[Len(s)])

RECURSIVE StrOfInt(_)
StrOfInt(n) == IF n < 10 THEN <<Digit[n + 1]>> ELSE StrOfInt(n \div 10) \o <<Digit[(n % 10) + 1]>>

\* ------------------------------------------------------------- pandas load
\* The strings read_csv turns into NaN by default (keep_default_na=True);
\* of pandas' list, the two the rosters use.
NAStrings == {<<>>, <<"N", "A">>}

KeyCols == {"ST", "LEAID", "NCESSCH"}

\* One cell of an inferred column.  k is the dtype the cell ends up with and
\* s is what "%s" prints for it.
ParseCell(v, numeric, hasNA) ==
    IF v \in NAStrings THEN [k |-> "nan", s |-> <<"n", "a", "n">>, n |-> 0]
    ELSE IF ~numeric THEN [k |-> "str", s |-> v, n |-> 0]
    ELSE IF hasNA THEN [k |-> "float", s |-> StrOfInt(IntOf(v)) \o <<".", "0">>, n |-> IntOf(v)]
    ELSE [k |-> "int", s |-> StrOfInt(IntOf(v)), n |-> IntOf(v)]

\* read_csv is given no dtype: a column whose non-NA cells are all integer
\* literals becomes int64 (float64 when a cell is NA), any other column stays
\* object (str).
ColumnNumeric(rows, c) ==
    /\ \E i \in 1..Len(rows) : rows[i][c] \notin NAStrings
    /\ \A i \in 1..Len(rows) : rows[i][c] \in NAStrings \/ IsIntText(rows[i][c])

ColumnHasNA(rows, c) == \E i \in 1..Len(rows) : rows[i][c] \in NAStrings

read_csv(rows) ==
    [i \in 1..Len(rows) |->
        [c \in DOMAIN rows[i] |->
            IF c \in KeyCols
            THEN ParseCell(rows[i][c], ColumnNumeric(rows, c), ColumnHasNA(rows, c))
            ELSE rows[i][c]]]

\* Order of two group keys of one level: numbers by value, str by code point
\* (one level holds one dtype, so the mixed case does not arise).
KeyLess(x, y) ==
    IF x.k = "str" /\ y.k = "str" THEN LexLess(x.s, y.s) ELSE x.n < y.n

RECURSIVE SortKeys(_)
SortKeys(S) ==
    IF S = {} THEN <<>>
    ELSE LET m == CHOOSE x \in S : \A y \in S \ {x} : KeyLess(x, y)
         IN <<m>> \o SortKeys(S \ {m})

\* DataFrame.groupby(level=c): the keys in ascending order (sort=True), rows
\* whose key is NaN dropped (dropna=True); a group keeps its rows in the
\* order of the frame.
GroupKeys(df, c) == SortKeys({df[i][c] : i \in {j \in 1..Len(df) : df[j][c].k # "nan"}})

GroupRows(df, c, key) == SelectSeq(df, LAMBDA r : r[c] = key)

\* --------------------------------------------------------------- templates
\* One print() call: the template and the two values substituted into it.
Item(t, a, b) == [t |-> t, a |-> a, b |-> b]

PREFIX_FORMAT(conforms_to, described_by) == Item("PREFIX", conforms_to, described_by)

LEA_PREFIX_FORMAT(lea, name) == Item("LEA_PREFIX", lea, name)

LEA_SUFFIX == Item("LEA_SUFFIX", <<>>, <<>>)

SCHOOL_FORMAT(id, name) == Item("SCHOOL", id, name)

SEPARATOR == Item("SEPARATOR", <<>>, <<>>)

SUFFIX == Item("SUFFIX", <<>>, <<>>)

\* ----------------------------------------------------------- configuration
Settings == {"ccd_file", "output_dir", "conforms_to", "described_by", "log_level"}

LOG_LEVEL == <<"INFO">>

CCD_FILE == <<"ccd_sch_sas.csv">>

CONFORMANCE_URL == <<"https://data.ed.gov/v1.0/schema/schooloperationalstatus">>

SCHEMA_URL == <<"https://data.ed.gov/v1.0/schema/schooloperationalstatus.schema.json">>

OUTPUT_DIR == <<".">>

defaults ==
    [ccd_file |-> CCD_FILE, output_dir |-> OUTPUT_DIR, conforms_to |-> CONFORMANCE_URL,
     described_by |-> SCHEMA_URL, log_level |-> LOG_LEVEL]

\* The environment variable read for each setting.
EnvName ==
    [ccd_file |-> "SOS_CCDFILE", output_dir |-> "SOS_OUTPUTDIR", conforms_to |-> "SOS_CONFORMANCE",
     described_by |-> "SOS_SCHEMA", log_level |-> "SOS_LOGLEVEL"]

EnvNames == {EnvName[k] : k \in Settings}

\* os.getenv(name, default=d)
getenv(environ, name, d) == IF environ[name].set THEN environ[name].v ELSE d

\* The defaults dictionary after the five getenv assignments.
EnvDefaults(environ) == [k \in Settings |-> getenv(environ, EnvName[k], defaults[k])]

\* Mutant of parse_args: a set environment variable wins over the flag.
parse_args_env_wins(argv, defs) ==
    [k \in Settings |-> IF argv[k].given /\ defs[k] = defaults[k] THEN argv[k].v ELSE defs[k]]

\* parser.parse_args(): a flag given on the command line wins over the
\* default= of its add_argument.
parse_args(argv, defs) == [k \in Settings |-> IF argv[k].given THEN argv[k].v ELSE defs[k]]

\* ------------------------------------------------------------------ inputs
Row(st, lea, ln, sch, sn) ==
    [ST |-> st, LEAID |-> lea, LEA_NAME |-> ln, NCESSCH |-> sch, SCH_NAME |-> sn]

Rows(STs, LEAs, LNs, SCHs, SNs) ==
    {Row(st, lea, ln, sch, sn) : st \in STs, lea \in LEAs, ln \in LNs, sch \in SCHs, sn \in SNs}

Rosters(R) == UNION {[1..n -> R] : n \in 0..MaxRows}

VA == <<"V", "A">>

MD == <<"M", "D">>

NA == <<"N", "A">>

\* Two States, two LEAs, two schools: every shape of grouping.
GroupingRows == Rows({VA, MD}, {<<"A">>, <<"B">>}, {<<"a">>}, {<<"X">>, <<"Y">>}, {<<"b">>})

\* Identifiers that are integer literals, with and without a leading zero.
NumericRows == Rows({VA}, {<<"1">>, <<"0", "1">>, <<"A">>}, {<<"a">>}, {<<"2">>, <<"0", "2">>}, {<<"b">>})

\* State codes that read_csv does not keep as str.
StateRows == Rows({VA, NA, <<"1">>}, {<<"A">>}, {<<"a">>}, {<<"X">>}, {<<"b">>})

\* LEA identifiers that read_csv turns into NaN.
MissingRows == Rows({VA}, {<<"A">>, NA}, {<<"a">>}, {<<"X">>, <<"Y">>}, {<<"b">>})

\* Names holding a double quote or a backslash.
NameRows == Rows({VA}, {<<"A">>}, {<<"a">>, <<"a", "\"">>}, {<<"X">>}, {<<"b">>, <<"\"">>, <<"\\">>})

\* The rosters of the runs that are repeated or reconfigured.
SmallRows == Rows({VA, MD}, {<<"A">>, <<"B">>}, {<<"a">>}, {<<"X">>}, {<<"b">>})

NoEnv == [e \in EnvNames |-> [set |-> FALSE, v |-> <<>>]]

NoFlags == [k \in Settings |-> [given |-> FALSE, v |-> <<>>]]

Environs == [EnvNames -> {[set |-> FALSE, v |-> <<>>], [set |-> TRUE, v |-> <<"from-env">>]}]

Argvs == [Settings -> {[given |-> FALSE, v |-> <<>>], [given |-> TRUE, v |-> <<"from-flag">>]}]

NoFiles == [x \in {} |-> <<>>]

Junk == <<Item("JUNK", <<>>, <<>>), Item("JUNK", <<>>, <<>>)>>

\* What the output root holds before the first run: nothing, the directory of
\* a State, or that directory with an older file in it.
Roots ==
    {[dirs |-> {}, files |-> NoFiles],
     [dirs |-> {VA}, files |-> NoFiles],
     [dirs |-> {VA}, files |-> (VA :> Junk)]}

\* ------------------------------------------------------------------- state
VARIABLES
    environ,    \* os.environ, the SOS_* variables
    argv,       \* the flags of the command line
    ccd,        \* the input file: kind "ok" with its rows, "nofile", "nocolumn"
    dirs,       \* the State directories under the output root
    files,      \* directory name -> content of its school_operational_status.json
    handles,    \* the open file handles, by directory name
    args,       \* the parsed arguments
    pc,         \* position of the run
    exc,        \* the exception that ended the run, "" if none
    sidf,       \* the loaded frame
    st_iter,    \* the States groupby has not yielded yet
    state,      \* loop variables of main
    lea_grp,
    lea_iter,
    lea,
    sch_grp,
    schi,
    run,        \* 1 for the first run, 2 for the second
    plan,       \* "once", "same" (run again as is), "reflag" (run again with other URLs)
    root0,      \* dirs and files of the output root before the first run
    made,       \* directories this run created
    opened,     \* files this run opened
    closedAs,   \* directory name -> content of its file when this run closed it
    first       \* args, dirs and files at the end of the first run

vars ==
    <<environ, argv, ccd, dirs, files, handles, args, pc, exc, sidf, st_iter, state,
      lea_grp, lea_iter, lea, sch_grp, schi, run, plan, root0, made, opened, closedAs, first>>

inputs == <<environ, ccd, plan, root0>>

loopvars == <<state, lea_grp, lea_iter, lea, sch_grp, schi>>

history == <<run, made, opened, closedAs, first>>

NoCell == [k |-> "none", s |-> <<>>, n |-> 0]

NoArgs == [k \in Settings |-> <<>>]

Fresh ==
    /\ handles = {}
    /\ args = NoArgs
    /\ pc = "start"
    /\ exc = ""
    /\ sidf = <<>>
    /\ st_iter = <<>>
    /\ state = NoCell
    /\ lea_grp = <<>>
    /\ lea_iter = <<>>
    /\ lea = NoCell
    /\ sch_grp = <<>>
    /\ schi = 0
    /\ run = 1
    /\ made = {}
    /\ opened = {}
    /\ closedAs = NoFiles
    /\ first = [args |-> NoArgs, dirs |-> {}, files |-> NoFiles]

\* One run on any roster, default configuration, empty output root.
InitRosters ==
    /\ ccd \in [kind : {"ok"},
                rows : Rosters(GroupingRows) \cup Rosters(NumericRows) \cup Rosters(StateRows)
                       \cup Rosters(MissingRows) \cup Rosters(NameRows)]
    /\ environ = NoEnv /\ argv = NoFlags
    /\ dirs = {} /\ files = NoFiles
    /\ plan = "once"

\* One run under every combination of environment variables and flags.
InitConfig ==
    /\ ccd \in [kind : {"ok"}, rows : {<<>>, <<Row(VA, <<"A">>, <<"a">>, <<"X">>, <<"b">>)>>}]
    /\ environ \in Environs /\ argv \in Argvs
    /\ dirs = {} /\ files = NoFiles
    /\ plan = "once"

\* Two runs in sequence, on any content of the output root.
InitTwice ==
    /\ ccd \in [kind : {"ok"}, rows : Rosters(SmallRows)]
    /\ environ = NoEnv /\ argv = NoFlags
    /\ \E r \in Roots : dirs = r.dirs /\ files = r.files
    /\ plan \in {"same", "reflag"}

\* An input that cannot be loaded.
InitUnreadable ==
    /\ ccd \in [kind : {"nofile", "nocolumn"}, rows : {<<>>}]
    /\ environ = NoEnv /\ argv = NoFlags
    /\ \E r \in Roots : dirs = r.dirs /\ files = r.files
    /\ plan = "once"

Init ==
    /\ Fresh
    /\ (InitRosters \/ InitConfig \/ InitTwice \/ InitUnreadable)
    /\ root0 = [dirs |-> dirs, files |-> files]

\* ----------------------------------------------------------------- actions
\* Module level: the getenv overrides of the defaults, then parse_args().
ParseArgs ==
    /\ pc = "start"
    /\ args' = parse_args(argv, EnvDefaults(environ))
    /\ pc' = "main"
    /\ UNCHANGED <<inputs, argv, dirs, files, handles, exc, sidf, st_iter, loopvars, history>>

\* A run ends with an exception: execution leaves main, nothing is undone.
Raise(e) ==
    /\ pc' = "aborted"
    /\ exc' = e

\* pandas.read_csv(...) and the groupby over the State level.
ReadCsv ==
    /\ pc = "main"
    /\ ccd.kind = "ok"
    /\ sidf' = read_csv(ccd.rows)
    /\ st_iter' = GroupKeys(sidf', "ST")
    /\ pc' = "for_state"
    /\ UNCHANGED <<inputs, argv, dirs, files, handles, args, exc, loopvars, history>>

\* read_csv raises FileNotFoundError, or ValueError for a column of usecols
\* that the file does not have.
ReadCsvFails ==
    /\ pc = "main"
    /\ ccd.kind # "ok"
    /\ Raise(IF ccd.kind = "nofile" THEN "FileNotFoundError" ELSE "ValueError")
    /\ UNCHANGED <<inputs, argv, dirs, files, handles, args, sidf, st_iter, loopvars, history>>

\* The for statement yields the next State and its rows.
NextState ==
    /\ pc = "for_state"
    /\ st_iter # <<>>
    /\ state' = Head(st_iter)
    /\ lea_grp' = GroupRows(sidf, "ST", Head(st_iter))
    /\ st_iter' = Tail(st_iter)
    /\ pc' = "mkdir"
    /\ UNCHANGED <<inputs, argv, dirs, files, handles, args, exc, sidf, lea_iter, lea, sch_grp,
                   schi, history>>

\* The for statement is exhausted: main returns.
Return ==
    /\ pc = "for_state"
    /\ st_iter = <<>>
    /\ pc' = "done"
    /\ first' = IF run = 1 THEN [args |-> args, dirs |-> dirs, files |-> files] ELSE first
    /\ UNCHANGED <<inputs, argv, dirs, files, handles, args, exc, sidf, st_iter, loopvars,
                   run, made, opened, closedAs>>

\* opath = args.output_dir / state; opath.mkdir(exist_ok=True)
Mkdir ==
    /\ pc = "mkdir"
    /\ state.k = "str"
    /\ dirs' = dirs \cup {state.s}
    /\ made' = made \cup ({state.s} \ dirs)
    /\ pc' = "open"
    /\ UNCHANGED <<inputs, argv, files, handles, args, exc, sidf, st_iter, loopvars, run,
                   opened, closedAs, first>>

\* Mutant of MkdirFails: the error is noted and the loop goes on with the
\* next State.
MkdirFailsContinues ==
    /\ pc = "mkdir"
    /\ exc' = (IF state.k = "str" THEN "OSError" ELSE "TypeError")
    /\ pc' = "for_state"
    /\ UNCHANGED <<inputs, argv, dirs, files, handles, args, sidf, st_iter, loopvars, history>>

\* The path cannot be built from a State that is not a str (TypeError), or
\* the operating system refuses the directory (OSError).
MkdirFails ==
    /\ pc = "mkdir"
    /\ Raise(IF state.k = "str" THEN "OSError" ELSE "TypeError")
    /\ UNCHANGED <<inputs, argv, dirs, files, handles, args, sidf, st_iter, loopvars, history>>

\* Mutant of Open: mode 'a', an existing file keeps its content.
OpenAppends ==
    /\ pc = "open"
    /\ files' = files @@ (state.s :> <<>>)
    /\ handles' = handles \cup {state.s}
    /\ opened' = opened \cup {state.s}
    /\ pc' = "prefix"
    /\ UNCHANGED <<inputs, argv, dirs, args, exc, sidf, st_iter, loopvars, run, made,
                   closedAs, first>>

\* with jtf.open(mode='w') as j: the file is created or truncated.
Open ==
    /\ pc = "open"
    /\ files' = (state.s :> <<>>) @@ files
    /\ handles' = handles \cup {state.s}
    /\ opened' = opened \cup {state.s}
    /\ pc' = "prefix"
    /\ UNCHANGED <<inputs, argv, dirs, args, exc, sidf, st_iter, loopvars, run, made,
                   closedAs, first>>

OpenFails ==
    /\ pc = "open"
    /\ Raise("OSError")
    /\ UNCHANGED <<inputs, argv, dirs, files, handles, args, sidf, st_iter, loopvars, history>>

\* print(..., file=j) of the items, in order.
print(items) == files' = [files EXCEPT ![state.s] = @ \o items]

\* Leaving the with block, normally or by an exception, closes the handle.
Close == handles' = handles \ {state.s}

\* Mutant of WritePrefix: the preamble is formatted with the constants, not
\* with the parsed arguments.
WritePrefixConstants ==
    /\ pc = "prefix"
    /\ print(<<PREFIX_FORMAT(CONFORMANCE_URL, SCHEMA_URL)>>)
    /\ pc' = "first_lea"
    /\ UNCHANGED <<inputs, argv, dirs, handles, args, exc, sidf, st_iter, loopvars, history>>

\* print(PREFIX_FORMAT % (args.conforms_to, args.described_by), file=j)
WritePrefix ==
    /\ pc = "prefix"
    /\ print(<<PREFIX_FORMAT(args.conforms_to, args.described_by)>>)
    /\ pc' = "first_lea"
    /\ UNCHANGED <<inputs, argv, dirs, handles, args, exc, sidf, st_iter, loopvars, history>>

\* The school of row i of a group, as substituted into SCHOOL_FORMAT.
School(grp, i) == SCHOOL_FORMAT(grp[i].NCESSCH.s, grp[i].SCH_NAME)

\* The first LEA of the State: its prefix and its first school.
FirstLea ==
    /\ pc = "first_lea"
    /\ LET it == GroupKeys(lea_grp, "LEAID")
           grp == GroupRows(lea_grp, "LEAID", Head(it))
       IN /\ it # <<>>
          /\ lea' = Head(it)
          /\ lea_iter' = Tail(it)
          /\ sch_grp' = grp
          /\ print(<<LEA_PREFIX_FORMAT(Head(it).s, grp[1].LEA_NAME), School(grp, 1)>>)
    /\ schi' = 1
    /\ pc' = "schools1"
    /\ UNCHANGED <<inputs, argv, dirs, handles, args, exc, sidf, st_iter, state, lea_grp, history>>

\* next(lea_iter) on a State whose rows all have a NaN LEA: StopIteration,
\* outside the try statement.
FirstLeaStops ==
    /\ pc = "first_lea"
    /\ GroupKeys(lea_grp, "LEAID") = <<>>
    /\ Close
    /\ Raise("StopIteration")
    /\ UNCHANGED <<inputs, argv, dirs, files, args, sidf, st_iter, loopvars, history>>

\* One turn of the while loop over the schools of the first LEA.
FirstLeaSchool ==
    /\ pc = "schools1"
    /\ schi < Len(sch_grp)
    /\ print(<<SEPARATOR, School(sch_grp, schi + 1)>>)
    /\ schi' = schi + 1
    /\ UNCHANGED <<inputs, argv, dirs, handles, args, pc, exc, sidf, st_iter, state, lea_grp,
                   lea_iter, lea, sch_grp, history>>

FirstLeaSuffix ==
    /\ pc = "schools1"
    /\ ~(schi < Len(sch_grp))
    /\ print(<<LEA_SUFFIX>>)
    /\ pc' = "next_lea"
    /\ UNCHANGED <<inputs, argv, dirs, handles, args, exc, sidf, st_iter, loopvars, history>>

\* Mutant of NextLea: the separator before a later LEA is left out.
NextLeaNoSeparator ==
    /\ pc = "next_lea"
    /\ lea_iter # <<>>
    /\ LET grp == GroupRows(lea_grp, "LEAID", Head(lea_iter))
       IN /\ sch_grp' = grp
          /\ print(<<LEA_PREFIX_FORMAT(Head(lea_iter).s, grp[1].LEA_NAME), School(grp, 1)>>)
    /\ lea' = Head(lea_iter)
    /\ lea_iter' = Tail(lea_iter)
    /\ schi' = 1
    /\ pc' = "schools"
    /\ UNCHANGED <<inputs, argv, dirs, handles, args, exc, sidf, st_iter, state, lea_grp, history>>

\* A later LEA of the State: the separator, its prefix and its first school.
NextLea ==
    /\ pc = "next_lea"
    /\ lea_iter # <<>>
    /\ LET grp == GroupRows(lea_grp, "LEAID", Head(lea_iter))
       IN /\ sch_grp' = grp
          /\ print(<<SEPARATOR, LEA_PREFIX_FORMAT(Head(lea_iter).s, grp[1].LEA_NAME),
                     School(grp, 1)>>)
    /\ lea' = Head(lea_iter)
    /\ lea_iter' = Tail(lea_iter)
    /\ schi' = 1
    /\ pc' = "schools"
    /\ UNCHANGED <<inputs, argv, dirs, handles, args, exc, sidf, st_iter, state, lea_grp, history>>

NextLeaSchool ==
    /\ pc = "schools"
    /\ schi < Len(sch_grp)
    /\ print(<<SEPARATOR, School(sch_grp, schi + 1)>>)
    /\ schi' = schi + 1
    /\ UNCHANGED <<inputs, argv, dirs, handles, args, pc, exc, sidf, st_iter, state, lea_grp,
                   lea_iter, lea, sch_grp, history>>

NextLeaSuffix ==
    /\ pc = "schools"
    /\ ~(schi < Len(sch_grp))
    /\ print(<<LEA_SUFFIX>>)
    /\ pc' = "next_lea"
    /\ UNCHANGED <<inputs, argv, dirs, handles, args, exc, sidf, st_iter, loopvars, history>>

\* StopIteration inside the try statement: break, print SUFFIX, leave the
\* with block.
WriteSuffix ==
    /\ pc = "next_lea"
    /\ lea_iter = <<>>
    /\ print(<<SUFFIX>>)
    /\ Close
    /\ closedAs' = (state.s :> files'[state.s]) @@ closedAs
    /\ pc' = "for_state"
    /\ UNCHANGED <<inputs, argv, dirs, args, exc, sidf, st_iter, loopvars, run, made, opened,
                   first>>

Writing == {"prefix", "first_lea", "schools1", "next_lea", "schools"}

\* Mutant of WriteFails: the file is opened without a with block, so the
\* exception leaves the handle open.
WriteFailsLeaks ==
    /\ pc \in Writing
    /\ Raise("OSError")
    /\ UNCHANGED <<inputs, argv, dirs, files, handles, args, sidf, st_iter, loopvars, history>>

\* A print() raises OSError (disk full, ...): the with block closes the
\* handle and the exception leaves main.
WriteFails ==
    /\ pc \in Writing
    /\ Close
    /\ Raise("OSError")
    /\ UNCHANGED <<inputs, argv, dirs, files, args, sidf, st_iter, loopvars, history>>

\* The URLs given to the second run of a "reflag" plan.
OtherUrls(a) ==
    [a EXCEPT !.conforms_to = [given |-> TRUE, v |-> <<"https://example.org/conformance">>],
              !.described_by = [given |-> TRUE, v |-> <<"https://example.org/schema.json">>]]

\* The program is started a second time on the same input and output root.
RunAgain ==
    /\ pc = "done"
    /\ run = 1
    /\ plan # "once"
    /\ run' = 2
    /\ argv' = IF plan = "reflag" THEN OtherUrls(argv) ELSE argv
    /\ pc' = "start"
    /\ args' = NoArgs
    /\ sidf' = <<>>
    /\ state' = NoCell /\ lea_grp' = <<>> /\ lea_iter' = <<>> /\ lea' = NoCell
    /\ sch_grp' = <<>> /\ schi' = 0
    /\ made' = {} /\ opened' = {} /\ closedAs' = NoFiles
    /\ UNCHANGED <<inputs, dirs, files, handles, exc, st_iter, first>>

Next ==
    \/ ParseArgs
    \/ ReadCsv
    \/ ReadCsvFails
    \/ NextState
    \/ Return
    \/ Mkdir
    \/ MkdirFails
    \/ Open
    \/ OpenFails
    \/ WritePrefix
    \/ FirstLea
    \/ FirstLeaStops
    \/ FirstLeaSchool
    \/ FirstLeaSuffix
    \/ NextLea
    \/ NextLeaSchool
    \/ NextLeaSuffix
    \/ WriteSuffix
    \/ WriteFails
    \/ RunAgain

Spec == Init /\ [][Next]_vars

\* ------------------------------------------------ reading an emitted file
\* The positions of the items of a file written with template t.
Positions(f, t) == {i \in 1..Len(f) : f[i].t = t}

\* The values of leaID in a file.
LeaIDsOut(f) == {f[i].a : i \in Positions(f, "LEA_PREFIX")}

\* The items of the LEA object opened at position i: up to its LEA_SUFFIX.
LeaEnd(f, i) ==
    IF \E j \in i..Len(f) : f[j].t = "LEA_SUFFIX"
    THEN CHOOSE j \in i..Len(f) : f[j].t = "LEA_SUFFIX" /\ \A m \in i..(j - 1) : f[m].t # "LEA_SUFFIX"
    ELSE Len(f)

LeaObject(f, i) == SubSeq(f, i, LeaEnd(f, i))

\* The values of schoolID in the openStatus array of the LEA object opened
\* at position i.
SchoolIDsOut(f, i) == {x.a : x \in {LeaObject(f, i)[m] : m \in Positions(LeaObject(f, i), "SCHOOL")}}

\* What the input holds, as written in the file.
RosterStates(rows) == {rows[i].ST : i \in 1..Len(rows)}

RosterLeas(rows, st) == {rows[i].LEAID : i \in {j \in 1..Len(rows) : rows[j].ST = st}}

RosterSchools(rows, st, l) ==
    {rows[i].NCESSCH : i \in {j \in 1..Len(rows) : rows[j].ST = st /\ rows[j].LEAID = l}}

\* --- JSON syntax of a file -------------------------------------------------
\* Is "<body>" one JSON string?  A bare double quote ends the string early, a
\* backslash must start an escape.
RECURSIVE StringBodyOK(_)
StringBodyOK(b) ==
    IF b = <<>> THEN TRUE
    ELSE IF Head(b) = "\"" THEN FALSE
    ELSE IF Head(b) = "\\"
         THEN /\ Len(b) >= 2
              /\ b[2] \in {"\"", "\\", "/", "b", "f", "n", "r", "t"}
              /\ StringBodyOK(Tail(Tail(b)))
    ELSE StringBodyOK(Tail(b))

\* The token that "%s" with value v lexes to.
V(v) == IF StringBodyOK(v) THEN "s" ELSE "bad"

Pair(v) == <<"s", ":", v, ",">>

\* The JSON tokens of the text of one item ("s" is a string literal).
Tokens(x) ==
    CASE x.t = "PREFIX" ->
            <<"{">> \o Pair(V(x.a)) \o Pair(V(x.b)) \o Pair("s") \o Pair("s") \o Pair("s")
            \o Pair("s") \o Pair("s") \o <<"s", ":", "[">>
      [] x.t = "LEA_PREFIX" -> <<"{">> \o Pair(V(x.a)) \o Pair(V(x.b)) \o <<"s", ":", "[">>
      [] x.t = "LEA_SUFFIX" -> <<"]", "}">>
      [] x.t = "SCHOOL" -> <<"{">> \o Pair("s") \o Pair(V(x.a)) \o <<"s", ":", V(x.b), "}">>
      [] x.t = "SEPARATOR" -> <<",">>
      [] x.t = "SUFFIX" -> <<"]", "}">>
      [] OTHER -> <<"bad">>

RECURSIVE FileTokens(_)
FileTokens(f) == IF f = <<>> THEN <<>> ELSE Tokens(Head(f)) \o FileTokens(Tail(f))

\* A pushdown recogniser of JSON values over the tokens: stack holds the open
\* containers, innermost first; mode is what may come next.
AfterValue(stack) == IF stack = <<>> THEN "end" ELSE "more"

RECURSIVE Parse(_, _, _)
Parse(toks, stack, mode) ==
    IF toks = <<>> THEN mode = "end"
    ELSE LET tok == Head(toks)
             rest == Tail(toks)
         IN CASE mode \in {"value", "value_or_close"} /\ tok = "s" -> Parse(rest, stack, AfterValue(stack))
              [] mode \in {"value", "value_or_close"} /\ tok = "{" -> Parse(rest, <<"obj">> \o stack, "key_or_close")
              [] mode \in {"value", "value_or_close"} /\ tok = "[" -> Parse(rest, <<"arr">> \o stack, "value_or_close")
              [] mode = "value_or_close" /\ tok = "]" -> Parse(rest, Tail(stack), AfterValue(Tail(stack)))
              [] mode \in {"key", "key_or_close"} /\ tok = "s" -> Parse(rest, stack, "colon")
              [] mode = "key_or_close" /\ tok = "}" -> Parse(rest, Tail(stack), AfterValue(Tail(stack)))
              [] mode = "colon" /\ tok = ":" -> Parse(rest, stack, "value")
              [] mode = "more" /\ tok = "," -> Parse(rest, stack, IF Head(stack) = "obj" THEN "key" ELSE "value")
              [] mode = "more" /\ tok = "}" /\ Head(stack) = "obj" -> Parse(rest, Tail(stack), AfterValue(Tail(stack)))
              [] mode = "more" /\ tok = "]" /\ Head(stack) = "arr" -> Parse(rest, Tail(stack), AfterValue(Tail(stack)))
              [] OTHER -> FALSE

ValidJSON(f) == Parse(FileTokens(f), <<>>, "value")

\* --- separators ------------------------------------------------------------
Count(f, t) == Cardinality(Positions(f, t))

\* Separators of the lea array: those that follow the end of an LEA object.
LeaSeparators(f) == {i \in Positions(f, "SEPARATOR") : i > 1 /\ f[i - 1].t = "LEA_SUFFIX"}

\* Every separator stands between two elements of the same array, and two
\* consecutive elements have a separator between them.
SeparatorsBetween(f) ==
    /\ \A i \in Positions(f, "SEPARATOR") :
          /\ 1 < i /\ i < Len(f)
          /\ \/ f[i - 1].t = "SCHOOL" /\ f[i + 1].t = "SCHOOL"
             \/ f[i - 1].t = "LEA_SUFFIX" /\ f[i + 1].t = "LEA_PREFIX"
    /\ \A i \in 1..(Len(f) - 1) :
          /\ ~(f[i].t = "SCHOOL" /\ f[i + 1].t = "SCHOOL")
          /\ ~(f[i].t = "LEA_SUFFIX" /\ f[i + 1].t = "LEA_PREFIX")

\* An array of n elements has n - 1 separators.
SeparatorsCounted(f) ==
    /\ Count(f, "LEA_PREFIX") >= 1
    /\ Cardinality(LeaSeparators(f)) = Count(f, "LEA_PREFIX") - 1
    /\ \A i \in Positions(f, "LEA_PREFIX") :
          /\ Count(LeaObject(f, i), "SCHOOL") >= 1
          /\ Count(LeaObject(f, i), "SEPARATOR") = Count(LeaObject(f, i), "SCHOOL") - 1

\* ------------------------------------------------------------------ claims
Done == pc = "done"

\* The files this run wrote and closed.
Emitted == DOMAIN closedAs

\* C1: after a completed run, the leaID values of a State's file are the
\* distinct LEA IDs the input has for that State, each in exactly one LEA
\* object.
C1_LeaIdsAsInInput ==
    Done =>
        \A st \in RosterStates(ccd.rows) \cap Emitted :
            /\ LeaIDsOut(files[st]) = RosterLeas(ccd.rows, st)
            /\ \A l \in RosterLeas(ccd.rows, st) :
                  Cardinality({i \in Positions(files[st], "LEA_PREFIX") : files[st][i].a = l}) = 1

\* C2: after a completed run, the schoolID values of an LEA object are the
\* distinct School IDs the input has for that State and LEA.
C2_SchoolIdsAsInInput ==
    Done =>
        \A st \in RosterStates(ccd.rows) \cap Emitted :
            \A i \in Positions(files[st], "LEA_PREFIX") :
                SchoolIDsOut(files[st], i) = RosterSchools(ccd.rows, st, files[st][i].a)

\* C3: a completed run started on an empty output root leaves one directory
\* per distinct State code of the input, each holding its file.
C3_OneDirectoryPerState ==
    (Done /\ run = 1 /\ root0.dirs = {}) =>
        /\ dirs = RosterStates(ccd.rows)
        /\ Cardinality(dirs) = Cardinality(RosterStates(ccd.rows))
        /\ DOMAIN files = dirs

\* C4: in every emitted file the lea array and every openStatus array of n
\* elements hold n - 1 separators, each between two consecutive elements, for
\* the first LEA of a State and the later ones alike.
C4_Separators ==
    \A s \in Emitted : SeparatorsBetween(files[s]) /\ SeparatorsCounted(files[s])

\* A file whose first LEA has one school and whose second LEA has two.
C4_Witness ==
    /\ Done
    /\ \E s \in Emitted :
          /\ Count(files[s], "LEA_PREFIX") = 2
          /\ Count(LeaObject(files[s], 2), "SCHOOL") = 1
          /\ Count(files[s], "SCHOOL") = 3

\* C5: a second run with the same input, configuration and output root
\* leaves the files of the first run, whatever the root held before.
C5_Idempotent ==
    (Done /\ run = 2 /\ plan = "same") => (dirs = first.dirs /\ files = first.files)

\* The second run has rewritten a file that an older file preceded.
C5_Witness ==
    /\ Done /\ run = 2 /\ plan = "same"
    /\ VA \in Emitted
    /\ VA \in DOMAIN root0.files

\* What of an item does not come from --conformance and --schema.
Masked(x) == IF x.t = "PREFIX" THEN Item("PREFIX", <<>>, <<>>) ELSE x

\* C6: a run that differs only in --conformance and --schema writes the same
\* directories and files, the files differing only in the two URLs.
C6_OnlyUrlsDiffer ==
    (Done /\ run = 2 /\ plan = "reflag") =>
        /\ dirs = first.dirs
        /\ DOMAIN files = DOMAIN first.files
        /\ \A s \in DOMAIN files :
              /\ Len(files[s]) = Len(first.files[s])
              /\ \A i \in 1..Len(files[s]) : Masked(files[s][i]) = Masked(first.files[s][i])
        /\ \A s \in Emitted :
              /\ files[s][1] = PREFIX_FORMAT(args.conforms_to, args.described_by)
              /\ first.files[s][1] = PREFIX_FORMAT(first.args.conforms_to, first.args.described_by)

C6_Witness ==
    /\ Done /\ run = 2 /\ plan = "reflag"
    /\ \E s \in Emitted : files[s] # first.files[s] /\ Count(files[s], "LEA_PREFIX") = 2

\* C7: each setting is the flag's value when the flag is given, otherwise the
\* environment variable's when it is set, otherwise the hardcoded default; the
\* run uses these values.
Layered(k) ==
    IF argv[k].given THEN argv[k].v
    ELSE IF environ[EnvName[k]].set THEN environ[EnvName[k]].v
    ELSE defaults[k]

StateOrder == GroupKeys(sidf, "ST")

\* C8: a failure ends the run where it happens: the files closed before it
\* stay as they were closed, complete; nothing is created for a later State;
\* an input that cannot be loaded leaves the output root untouched.
C8_FailuresAreFatal ==
    /\ exc # "" => pc = "aborted"
    /\ \A s \in Emitted : files[s] = closedAs[s] /\ closedAs[s][Len(closedAs[s])] = SUFFIX
    /\ (pc = "aborted" /\ sidf = <<>> /\ state = NoCell) =>
          /\ made = {} /\ opened = {}
          /\ run = 1 => (dirs = root0.dirs /\ files = root0.files)
    /\ (pc = "aborted" /\ state # NoCell) =>
          /\ \A i \in 1..Len(st_iter) : st_iter[i].s \notin made \cup opened
          /\ Emitted = {StateOrder[i].s : i \in 1..(Len(StateOrder) - Len(st_iter) - 1)}
          /\ state.s \notin Emitted

\* The directory of the second State could not be created after the first
\* State's file was written.
C8_Witness ==
    /\ pc = "aborted" /\ exc = "OSError"
    /\ Emitted = {MD}
    /\ state.s = VA
    /\ VA \notin dirs

\* C10: at most one file handle is open, only while its State is being
\* written, and none when the run ends or aborts.
C10_OneHandle ==
    /\ Cardinality(handles) <= 1
    /\ pc \in Writing => handles = {state.s}
    /\ pc \notin Writing => handles = {}

\* A write failed in the second State's file.
C10_Witness ==
    /\ pc = "aborted" /\ exc = "OSError"
    /\ Emitted # {}
    /\ state.s \in opened
    /\ Len(files[state.s]) >= 2

\* C9: every file emitted by a completed run is syntactically valid JSON,
\* whatever strings the names and identifiers are.
C9_ValidJson == Done => \A s \in Emitted : ValidJSON(files[s])

====
